---- MODULE Spec2Model ----
(***************************************************************************)
(* Model of the embed lifecycle of rev-sdk-js: the abstract class          *)
(* VbrickEmbed (src/src/embed/VbrickEmbed.ts) on top of the Event Bus.     *)
(*                                                                         *)
(* VbrickEmbed.ts is modelled from its source.  EventBus.ts is imported by *)
(* it but is not among the source files; the bus operators (busPublish,    *)
(* busPublishError, busOn, busOff, awaitEvent, emitLocalError, busDestroy, *)
(* dispatch, settleWait) are modelled from section 4.1 of the spec.        *)
(*                                                                         *)
(* Scheduling is the browser's: a host call runs synchronously; promise    *)
(* reactions are microtasks, which run when the running task ends and      *)
(* before any other task; message deliveries, timers and setTimeout        *)
(* callbacks are tasks.                                                    *)
(***************************************************************************)
EXTENDS Integers, Sequences, FiniteSets, TLC

\* ---------------------------------------------------------------- bounds
MaxBus == 2          \* handshakes (iframes, buses) one embed may run
MaxUpd == 1          \* updateToken() calls
MaxOn == 1           \* registrations of one listener for one event on one bus
MaxDeferred == 1     \* queued setTimeout callbacks

\* ------------------------------------------------------- program values
Undefined == -1      \* a config field that is not set
NaN == -2            \* undefined * 1000
MsPerSecond == 1000

Buses == 1..MaxBus
Updates == 1..MaxUpd
Listeners == {"l1"}
OnEvents == {"playerStatusChanged"}

PlayerStatus ==
    {"Initializing", "Playing", "Paused", "Buffering", "Seeking", "Ended", "Error"}
StatusPayloads == {"Playing"}

ACCESS_TOKEN == "AccessToken"
NoToken == [type |-> "none", value |-> "undefined"]
ConfigTokens ==
    {NoToken, [type |-> ACCESS_TOKEN, value |-> "a"], [type |-> "JWT", value |-> "j"]}
NewTokens == {[type |-> ACCESS_TOKEN, value |-> "b"], [type |-> "JWT", value |-> "j"]}
TimeoutChoices == {Undefined, 2}

NoSubtitles == [enabled |-> FALSE, language |-> ""]
SubtitleChoices == {NoSubtitles, [enabled |-> TRUE, language |-> "en"]}
VolumeChoices == {0, 1}

\* a payload object is the set of its <<field, value>> pairs
NoInfo == {}
VideoPayload == {<<"title", "V">>, <<"status", "Active">>, <<"isLive", "false">>}
WebcastPayload == {<<"title", "X">>, <<"status", "InProgress">>, <<"isLive", "true">>}
EndedWebcastPayload == {<<"title", "Y">>, <<"status", "Completed">>, <<"isLive", "false">>}
WebcastPayloads == {WebcastPayload, EndedWebcastPayload}

WaitIds == ({"load", "auth"} \X Buses) \cup ({"upd"} \X Updates)

\* a message posted to a content window
NoMsg == [bus |-> 0, event |-> "", data |-> "", volume |-> Undefined,
          subtitles |-> NoSubtitles]

VARIABLES
    playerStatus,      \* _playerStatus
    volume,            \* _volume
    currentSubtitles,  \* _currentSubtitles
    info,              \* _info
    token,             \* config.token
    timeoutSeconds,    \* config.timeoutSeconds
    init,              \* this.init: 0, or the handshake whose promise it holds
    eventBus,          \* this.eventBus: 0 (undefined), or a bus
    iframe,            \* this.iframe: 0 (undefined), or an iframe
    attached,          \* the iframes attached to the container
    bus,               \* the Event Bus objects
    waits,             \* the awaitEvent() calls
    hs,                \* the promise chain of each initialize() handshake
    upd,               \* the updateToken() calls
    jobs,              \* microtasks queued by the host's synchronous code
    deferred,          \* setTimeout callbacks queued by on()'s wrappers
    posted,            \* the messages the last step posted to content windows
    gen,               \* initialize() calls since construction or destroy()
    hostOn,            \* the <<event, listener>> pairs passed to on() and not to off()
                       \* since the bus was made
    threw              \* whether the last host call raised an exception

vars == <<playerStatus, volume, currentSubtitles, info, token, timeoutSeconds, init,
          eventBus, iframe, attached, bus, waits, hs, upd, jobs, deferred, posted,
          gen, hostOn, threw>>

\* the variables that handlers running in tasks and microtasks write
St == [playerStatus |-> playerStatus, currentSubtitles |-> currentSubtitles,
       info |-> info, bus |-> bus, waits |-> waits, hs |-> hs, upd |-> upd,
       deferred |-> deferred, posted |-> <<>>, mq |-> <<>>]

Set(S) ==
    /\ playerStatus' = S.playerStatus
    /\ currentSubtitles' = S.currentSubtitles
    /\ info' = S.info
    /\ bus' = S.bus
    /\ waits' = S.waits
    /\ hs' = S.hs
    /\ upd' = S.upd
    /\ deferred' = S.deferred
    /\ posted' = S.posted

\* the element of a one-element set
The(s) == CHOOSE x \in s : TRUE

NewBus == [made |-> FALSE, destroyed |-> FALSE, internal |-> {},
           ext |-> [k \in OnEvents \X {"wrapper", "host"} \X Listeners |-> 0],
           sent |-> FALSE, dropped |-> FALSE, heard |-> Undefined]
NewWait == [bus |-> 0, ok |-> "", err |-> "", st |-> "idle", timer |-> 0, lis |-> FALSE]
NewHs == [outcome |-> "none", cause |-> "", tokenOk |-> TRUE, tokenVal |-> "",
          timeout |-> 0, authPub |-> 0, failures |-> 0, errCalls |-> 0,
          localCalls |-> 0]
NewUpd == [st |-> "unused", new |-> NoToken, tokenOk |-> TRUE, tokenVal |-> ""]
NewGen == [runs |-> 0, ret |-> {}, again |-> FALSE]

Init ==
    /\ playerStatus = "Initializing"
    /\ volume = Undefined
    /\ currentSubtitles = NoSubtitles
    /\ info = NoInfo
    /\ token \in ConfigTokens
    /\ timeoutSeconds \in TimeoutChoices
    /\ init = 0
    /\ eventBus = 0
    /\ iframe = 0
    /\ attached = {}
    /\ bus = [b \in Buses |-> NewBus]
    /\ waits = [w \in WaitIds |-> NewWait]
    /\ hs = [h \in Buses |-> NewHs]
    /\ upd = [u \in Updates |-> NewUpd]
    /\ jobs = {}
    /\ deferred = <<>>
    /\ posted = <<>>
    /\ gen = NewGen
    /\ hostOn = {}
    /\ threw = FALSE

\* --------------------------------------------------------------- Event Bus
\* publish(eventName, payload?): posts one message to the bound content window;
\* after destroy() it does nothing.
busPublish(S0, b, m) ==
    The({ IF S.bus[b].destroyed THEN S
          ELSE [S EXCEPT !.bus[b].sent = TRUE,
                         !.posted = Append(@, [m EXCEPT !.bus = b])]
          : S \in {S0} })

\* publishError(code): publishes a synthetic `error` message.
busPublishError(S, b, code) ==
    busPublish(S, b, [NoMsg EXCEPT !.event = "error", !.data = code])

\* on(eventName, listener): one more registration of that listener reference.
busOn(S, b, ev, ref, l) ==
    [S EXCEPT !.bus[b].ext[<<ev, ref, l>>] = @ + 1]

\* off(eventName, listener): removes a registration of that very reference,
\* and does nothing when the reference is not registered.
busOff(S, b, ev, ref, l) ==
    [S EXCEPT !.bus[b].ext[<<ev, ref, l>>] = IF @ > 0 THEN @ - 1 ELSE 0]

\* awaitEvent(success, error, timeoutMs?): one-shot listeners on both names, and
\* a timer unless timeoutMs is omitted, undefined or zero.
awaitEvent(S, w, b, ok, err, timeoutMs) ==
    [S EXCEPT !.waits[w] =
        [bus |-> b, ok |-> ok, err |-> err, st |-> "pending",
         timer |-> IF timeoutMs = Undefined \/ timeoutMs = 0 THEN 0 ELSE timeoutMs,
         lis |-> TRUE]]

\* a settlement that leaves the timer and the listeners in place
settleWaitKeepsListeners(S0, w, how) ==
    The({ IF S.waits[w].st # "pending" THEN S
          ELSE [S EXCEPT !.waits[w].st = how, !.mq = Append(@, <<"wait", w>>)]
          : S \in {S0} })

\* The first of {success event, error event, timer} settles the wait, clears
\* the timer and removes both listeners; the promise's reaction is a microtask.
settleWait(S0, w, how) ==
    The({ IF S.waits[w].st # "pending" THEN S
          ELSE [S EXCEPT !.waits[w].st = how, !.waits[w].timer = 0,
                         !.waits[w].lis = FALSE, !.mq = Append(@, <<"wait", w>>)]
          : S \in {S0} })

RECURSIVE settleAll(_, _, _)
settleAll(S0, ws, ev) ==
    IF ws = {} THEN S0
    ELSE The({ settleAll(settleWait(S, w, IF S.waits[w].ok = ev THEN "resolved"
                                          ELSE "rejected"),
                         ws \ {w}, ev)
               : <<S, w>> \in {S0} \X {CHOOSE x \in ws : TRUE} })

\* the setTimeout callbacks that on()'s wrappers of `ev` queue: one per
\* registration; `applied` tells whether the internal listener of `ev` has run
\* for this event
RECURSIVE wrapperCalls(_, _, _, _, _)
wrapperCalls(S, b, ev, ls, applied) ==
    IF ls = {} THEN <<>>
    ELSE LET l == CHOOSE x \in ls : TRUE
         IN [i \in 1..S.bus[b].ext[<<ev, "wrapper", l>>] |->
                [bus |-> b, ev |-> ev, l |-> l, applied |-> applied]]
            \o wrapperCalls(S, b, ev, ls \ {l}, applied)

\* The bus calls the listeners registered for `ev`: the wrappers that on()
\* registered, then the one-shot listeners of the pending waits.
dispatch(S0, b, ev, applied) ==
    The({ LET S1 == IF ev \in OnEvents
                    THEN [S EXCEPT !.deferred =
                                       @ \o wrapperCalls(S, b, ev, Listeners, applied)]
                    ELSE S
              ws == {w \in WaitIds : /\ S.waits[w].lis
                                     /\ S.waits[w].bus = b
                                     /\ ev \in {S.waits[w].ok, S.waits[w].err}}
          IN settleAll(S1, ws, ev)
          : S \in {S0} })

\* emitLocalError(message, cause): calls the local `error` listeners; nothing is
\* sent over the channel, and nothing is dispatched after destroy().
emitLocalError(S0, b) ==
    The({ IF S.bus[b].destroyed THEN S ELSE dispatch(S, b, "error", FALSE) : S \in {S0} })

\* destroy(): no further inbound dispatch, no further outbound publish.
busDestroy(S, b) ==
    [S EXCEPT !.bus[b].destroyed = TRUE]

\* ------------------------------------------------------------ VbrickEmbed
\* the timeout handed on in seconds
HandshakeTimeoutInSeconds(ts) ==
    IF ts = Undefined \/ ts = 0 THEN Undefined ELSE ts

\* (timeoutSeconds * 1000) || undefined
HandshakeTimeout(ts) ==
    LET ms == IF ts = Undefined THEN NaN ELSE ts * MsPerSecond
    IN IF ms = NaN \/ ms = 0 THEN Undefined ELSE ms

\* initializeToken() without the test of the token's type
initializeTokenAnyType(t) ==
    IF t = NoToken THEN [ok |-> TRUE, val |-> "undefined"]
    ELSE [ok |-> TRUE, val |-> t.value]

\* initializeToken(): resolved with undefined, rejected, or resolved with the
\* access token
initializeToken(t) ==
    IF t = NoToken THEN [ok |-> TRUE, val |-> "undefined"]
    ELSE IF t.type # ACCESS_TOKEN THEN [ok |-> FALSE, val |-> "Unsupported token type"]
    ELSE [ok |-> TRUE, val |-> t.value]

InternalEvents == {"videoLoaded", "webcastLoaded", "playerStatusChanged", "subtitlesChanged"}

\* initialize() without the initializeEmbed() call
initializeEmbedSkipped(S, b) == S

\* initializeEmbed() without the playerStatusChanged listener
initializeEmbedNoStatus(S, b) ==
    [S EXCEPT !.bus[b].internal = InternalEvents \ {"playerStatusChanged"}]

\* initializeEmbed(): the internal listeners, registered first on a new bus
initializeEmbed(S, b) ==
    [S EXCEPT !.bus[b].internal = InternalEvents]

\* the listeners with a webcastLoaded listener that stores the whole payload
internalListenerKeepsStatus(S, b, ev, e) ==
    CASE ev = "videoLoaded" -> [S EXCEPT !.info = e, !.playerStatus = "Paused"]
      [] ev = "webcastLoaded" -> [S EXCEPT !.info = e]
      [] ev = "playerStatusChanged" ->
            [S EXCEPT !.playerStatus = e]
      [] ev = "subtitlesChanged" -> [S EXCEPT !.currentSubtitles = e]
      [] OTHER -> S

\* the bodies of the listeners initializeEmbed() registers
internalListener(S, b, ev, e) ==
    CASE ev = "videoLoaded" -> [S EXCEPT !.info = e, !.playerStatus = "Paused"]
      [] ev = "webcastLoaded" -> [S EXCEPT !.info = {p \in e : p[1] # "status"}]
      [] ev = "playerStatusChanged" ->
            [S EXCEPT !.playerStatus = e]
      [] ev = "subtitlesChanged" -> [S EXCEPT !.currentSubtitles = e]
      [] OTHER -> S

\* .then(() => ...) publishing `authenticated` without the token
thenHandlerNoToken(S0, h) ==
    The({
    LET S1 == busPublish(S, eventBus, [NoMsg EXCEPT !.event = "authenticated",
                                                    !.data = "undefined"])
        S2 == awaitEvent(S1, <<"auth", h>>, eventBus, "authChanged", "error", S.hs[h].timeout)
    IN [S2 EXCEPT !.hs[h].authPub = @ + 1, !.hs[h].outcome = "resolved"]
    : S \in {S0} })

\* .then(([token]) => ...): publish `authenticated`, start the wait for the
\* confirmation without returning it
thenHandler(S0, h) ==
    The({
    LET S1 == busPublish(S, eventBus,
                         [NoMsg EXCEPT !.event = "authenticated", !.data = S.hs[h].tokenVal])
        S2 == awaitEvent(S1, <<"auth", h>>, eventBus, "authChanged", "error", S.hs[h].timeout)
    IN [S2 EXCEPT !.hs[h].authPub = @ + 1, !.hs[h].outcome = "resolved"]
    : S \in {S0} })

\* the failure handler without `this._playerStatus = PlayerStatus.Error`
catchHandlerKeepsStatus(S, h, cause) ==
    LET S2 == busPublishError(S, eventBus, "initializationFailed")
        S3 == emitLocalError(S2, eventBus)
    IN [S3 EXCEPT !.hs[h].outcome = "rejected", !.hs[h].cause = cause,
                  !.hs[h].failures = @ + 1, !.hs[h].errCalls = @ + 1,
                  !.hs[h].localCalls = @ + 1]

\* .catch(err => ...)
catchHandler(S, h, cause) ==
    LET S1 == [S EXCEPT !.playerStatus = "Error"]
        S2 == busPublishError(S1, eventBus, "initializationFailed")
        S3 == emitLocalError(S2, eventBus)
    IN [S3 EXCEPT !.hs[h].outcome = "rejected", !.hs[h].cause = cause,
                  !.hs[h].failures = @ + 1, !.hs[h].errCalls = @ + 1,
                  !.hs[h].localCalls = @ + 1]

\* the confirmation wait returned from .then: its rejection reaches .catch
authReactionChained(S, h) ==
    IF S.waits[<<"auth", h>>].st = "resolved" THEN S ELSE catchHandler(S, h, "error")

\* the promise of the confirmation wait is dropped in .then: no reaction
authReaction(S, h) == S

\* updateToken() that does not await the confirmation
updateTokenResumeNoWait(S0, u) ==
    The({
    IF ~S.upd[u].tokenOk \/ eventBus = 0 THEN [S EXCEPT !.upd[u].st = "rejected"]
    ELSE LET S1 == busPublish(S, eventBus,
                      [NoMsg EXCEPT !.event = "authChanged", !.data = S.upd[u].tokenVal])
         IN [S1 EXCEPT !.upd[u].st = "resolved"]
    : S \in {S0} })

\* updateToken() after `await this.initializeToken()`
updateTokenResume(S0, u) ==
    The({
    IF ~S.upd[u].tokenOk \/ eventBus = 0 THEN [S EXCEPT !.upd[u].st = "rejected"]
    ELSE LET S1 == busPublish(S, eventBus,
                      [NoMsg EXCEPT !.event = "authChanged", !.data = S.upd[u].tokenVal])
             S2 == awaitEvent(S1, <<"upd", u>>, eventBus, "authChanged", "error", Undefined)
         IN [S2 EXCEPT !.upd[u].st = "waiting"]
    : S \in {S0} })

\* one promise reaction
reaction(S0, r) ==
    The({
    CASE r[1] = "catch" -> catchHandler(S, r[2], "token")
      [] r[1] = "upd" -> updateTokenResume(S, r[2])
      [] r[1] = "wait" /\ r[2][1] = "load" ->
            LET h == r[2][2]
            IN IF S.hs[h].outcome # "pending" \/ ~S.hs[h].tokenOk THEN S
               ELSE IF S.waits[r[2]].st = "resolved" THEN thenHandler(S, h)
               ELSE catchHandler(S, h, IF S.waits[r[2]].st = "timedout"
                                       THEN "timeout" ELSE "error")
      [] r[1] = "wait" /\ r[2][1] = "auth" -> authReaction(S, r[2][2])
      [] r[1] = "wait" /\ r[2][1] = "upd" ->
            [S EXCEPT !.upd[r[2][2]].st =
                IF S.waits[r[2]].st = "resolved" THEN "resolved" ELSE "rejected"]
      [] OTHER -> S
    : S \in {S0} })

\* the microtask queue runs until it is empty
RECURSIVE drain(_)
drain(S0) ==
    The({ IF S.mq = <<>> THEN S
          ELSE drain(reaction([S EXCEPT !.mq = Tail(@)], Head(S.mq)))
          : S \in {S0} })

\* ---------------------------------------------------------------- host calls
hostVars == <<token, init, eventBus, iframe, attached, jobs, gen, hostOn>>
embedState == <<playerStatus, volume, currentSubtitles, info>>

\* a call on `this.eventBus` or `this.iframe` while it is undefined: TypeError
typeError ==
    /\ threw' = TRUE
    /\ posted' = <<>>
    /\ UNCHANGED <<playerStatus, volume, currentSubtitles, info, token, timeoutSeconds,
                   init, eventBus, iframe, attached, bus, waits, hs, upd, jobs,
                   deferred, gen, hostOn>>

\* initialize() past the memo test: render(), new EventBus, initializeEmbed(),
\* Promise.all([initializeToken(), awaitEvent('load', 'error', timeout)])
handshake ==
    LET h == Cardinality({b \in Buses : bus[b].made}) + 1
        timeout == HandshakeTimeout(timeoutSeconds)
        tokenP == initializeToken(token)
    IN /\ h \in Buses
       /\ iframe' = h
       /\ attached' = attached \cup {h}
       /\ eventBus' = h
       /\ LET S1 == initializeEmbed([St EXCEPT !.bus[h].made = TRUE], h)
              S2 == awaitEvent(S1, <<"load", h>>, h, "load", "error", timeout)
          IN Set([S2 EXCEPT !.hs[h] = [NewHs EXCEPT !.outcome = "pending",
                                                    !.tokenOk = tokenP.ok,
                                                    !.tokenVal = tokenP.val,
                                                    !.timeout = timeout]])
       /\ init' = h
       /\ jobs' = IF tokenP.ok THEN jobs ELSE jobs \cup {<<"catch", h>>}
       /\ gen' = [gen EXCEPT !.runs = @ + 1, !.ret = @ \cup {h},
                           !.again = gen.ret # {}]
       /\ threw' = FALSE
       /\ UNCHANGED <<volume, token, timeoutSeconds, hostOn>>

\* if (this.init) return this.init
memoized ==
    /\ gen' = [gen EXCEPT !.ret = @ \cup {init}, !.again = gen.ret # {}]
    /\ threw' = FALSE
    /\ posted' = <<>>
    /\ UNCHANGED <<playerStatus, volume, currentSubtitles, info, token, timeoutSeconds,
                   init, eventBus, iframe, attached, bus, waits, hs, upd, jobs,
                   deferred, hostOn>>

initializeNoMemo == handshake

initialize == IF init # 0 THEN memoized ELSE handshake

\* play(), pause(), setVolume(), setSubtitles(): eventBus.publish(...);
\* `dropped` records a call that found the bus destroyed
control(m) ==
    IF eventBus = 0 THEN typeError
    ELSE /\ Set([busPublish(St, eventBus, m) EXCEPT
                     !.bus[eventBus].dropped = @ \/ bus[eventBus].destroyed])
         /\ threw' = FALSE
         /\ UNCHANGED <<volume, timeoutSeconds, hostVars>>

play == control([NoMsg EXCEPT !.event = "playVideo"])

pause == control([NoMsg EXCEPT !.event = "pauseVideo"])

setVolume(v) == control([NoMsg EXCEPT !.event = "setVolume", !.volume = v])

setSubtitles(s) == control([NoMsg EXCEPT !.event = "setSubtitles", !.subtitles = s])

\* on(event, listener): registers a new wrapper (e) => setTimeout(() => listener(e))
on(ev, l) ==
    IF eventBus = 0 THEN typeError
    ELSE /\ bus[eventBus].ext[<<ev, "wrapper", l>>] < MaxOn
         /\ Set(busOn(St, eventBus, ev, "wrapper", l))
         /\ hostOn' = hostOn \cup {<<ev, l>>}
         /\ threw' = FALSE
         /\ UNCHANGED <<volume, timeoutSeconds, token, init, eventBus, iframe, attached,
                        jobs, gen>>

\* off(event, listener): eventBus.off(event, listener), with the host's listener
off(ev, l) ==
    IF eventBus = 0 THEN typeError
    ELSE /\ Set(busOff(St, eventBus, ev, "host", l))
         /\ hostOn' = hostOn \ {<<ev, l>>}
         /\ threw' = FALSE
         /\ UNCHANGED <<volume, timeoutSeconds, token, init, eventBus, iframe, attached,
                        jobs, gen>>

\* destroy() without `this.init = null`
destroyKeepsInit ==
    IF iframe = 0 THEN typeError
    ELSE /\ attached' = attached \ {iframe}
         /\ Set(busDestroy(St, eventBus))
         /\ gen' = NewGen
         /\ hostOn' = {}
         /\ threw' = FALSE
         /\ UNCHANGED <<volume, timeoutSeconds, token, init, eventBus, iframe, jobs>>

\* destroy() without eventBus.destroy()
destroyKeepsBus ==
    IF iframe = 0 THEN typeError
    ELSE /\ attached' = attached \ {iframe}
         /\ Set(St)
         /\ init' = 0
         /\ gen' = NewGen
         /\ hostOn' = {}
         /\ threw' = FALSE
         /\ UNCHANGED <<volume, timeoutSeconds, token, eventBus, iframe, jobs>>

\* destroy(): iframe.remove(), eventBus.destroy(), init = null; `unsubscribes`
\* is never assigned
destroy ==
    IF iframe = 0 THEN typeError
    ELSE /\ attached' = attached \ {iframe}
         /\ Set(busDestroy(St, eventBus))
         /\ init' = 0
         /\ gen' = NewGen
         /\ hostOn' = {}
         /\ threw' = FALSE
         /\ UNCHANGED <<volume, timeoutSeconds, token, eventBus, iframe, jobs>>

\* updateToken(newToken) up to its first await
updateToken(t) ==
    \E u \in Updates :
        /\ upd[u].st = "unused"
        /\ \A v \in Updates : v < u => upd[v].st # "unused"
        /\ token' = t
        /\ LET tokenP == initializeToken(t)
           IN upd' = [upd EXCEPT ![u] = [st |-> "queued", new |-> t,
                                         tokenOk |-> tokenP.ok, tokenVal |-> tokenP.val]]
        /\ jobs' = jobs \cup {<<"upd", u>>}
        /\ threw' = FALSE
        /\ posted' = <<>>
        /\ UNCHANGED <<playerStatus, volume, currentSubtitles, info, timeoutSeconds, init,
                       eventBus, iframe, attached, bus, waits, hs, deferred, gen, hostOn>>

\* ------------------------------------------------------ tasks and microtasks
taskFrame == <<volume, token, timeoutSeconds, init, eventBus, iframe, attached, gen,
               hostOn, threw>>

\* the microtasks the host's synchronous code left behind
runJob ==
    \E j \in jobs :
        /\ \E R \in {drain([St EXCEPT !.mq = <<j>>])} :
               Len(R.deferred) <= MaxDeferred /\ Set(R)
        /\ jobs' = jobs \ {j}
        /\ UNCHANGED taskFrame

\* a message from the bound content window: the internal listener, then the
\* other listeners, then the microtasks; `heard` keeps the payload of the latest
\* volumeChanged message the bus received
deliver(b, ev, e) ==
    /\ jobs = {}
    /\ bus[b].made /\ ~bus[b].destroyed
    /\ LET applied == ev \in bus[b].internal
           S0 == IF ev = "volumeChanged" THEN [St EXCEPT !.bus[b].heard = e] ELSE St
           S1 == IF applied THEN internalListener(S0, b, ev, e) ELSE S0
       IN \E R \in {drain(dispatch(S1, b, ev, applied))} :
              Len(R.deferred) <= MaxDeferred /\ Set(R)
    /\ UNCHANGED <<jobs, taskFrame>>

deliverLoad == \E b \in Buses : deliver(b, "load", "")

deliverError == \E b \in Buses : deliver(b, "error", "")

deliverAuthChanged == \E b \in Buses : deliver(b, "authChanged", "")

deliverVideoLoaded == \E b \in Buses : deliver(b, "videoLoaded", VideoPayload)

deliverWebcastLoaded ==
    \E b \in Buses, e \in WebcastPayloads : deliver(b, "webcastLoaded", e)

deliverPlayerStatusChanged ==
    \E b \in Buses, s \in StatusPayloads : deliver(b, "playerStatusChanged", s)

deliverSubtitlesChanged ==
    \E b \in Buses, s \in SubtitleChoices : deliver(b, "subtitlesChanged", s)

deliverVolumeChanged ==
    \E b \in Buses, v \in VolumeChoices : deliver(b, "volumeChanged", v)

\* the timer of a pending wait fires
timerFire ==
    \E w \in WaitIds :
        /\ jobs = {}
        /\ waits[w].st = "pending" /\ waits[w].timer # 0
        /\ \E R \in {drain(settleWait(St, w, "timedout"))} :
               Len(R.deferred) <= MaxDeferred /\ Set(R)
        /\ UNCHANGED <<jobs, taskFrame>>

\* a queued setTimeout callback runs: () => listener(e)
runDeferred ==
    /\ jobs = {}
    /\ deferred # <<>>
    /\ deferred' = Tail(deferred)
    /\ posted' = <<>>
    /\ UNCHANGED <<playerStatus, volume, currentSubtitles, info, token, timeoutSeconds,
                   init, eventBus, iframe, attached, bus, waits, hs, upd, jobs, gen,
                   hostOn, threw>>

lifecycle ==
    \/ initialize
    \/ destroy
    \/ runJob
    \/ deliverLoad
    \/ deliverError
    \/ deliverAuthChanged
    \/ timerFire

controls ==
    \/ play
    \/ pause
    \/ \E v \in VolumeChoices : setVolume(v)
    \/ \E s \in SubtitleChoices : setSubtitles(s)

listeners ==
    \/ \E ev \in OnEvents, l \in Listeners : on(ev, l)
    \/ \E ev \in OnEvents, l \in Listeners : off(ev, l)
    \/ deliverPlayerStatusChanged
    \/ runDeferred

metadata ==
    \/ deliverVideoLoaded
    \/ deliverWebcastLoaded
    \/ deliverSubtitlesChanged

tokenRefresh == \E t \in NewTokens : updateToken(t)

\* the handshake
Next == lifecycle

Spec == Init /\ [][Next]_vars

\* timers fire and microtasks run; what the player sends and what the host
\* calls is up to them
FairSpec == Spec /\ WF_vars(timerFire) /\ WF_vars(runJob)

\* the handshake and token refresh
NextToken == lifecycle \/ tokenRefresh

SpecToken == Init /\ [][NextToken]_vars

FairSpecToken == SpecToken /\ WF_vars(timerFire) /\ WF_vars(runJob)

\* the handshake and the control surface
NextControls == lifecycle \/ controls

SpecControls == Init /\ [][NextControls]_vars

\* the handshake and the host's listeners
NextListeners ==
    \/ initialize
    \/ destroy
    \/ runJob
    \/ deliverLoad
    \/ timerFire
    \/ listeners

SpecListeners == Init /\ [][NextListeners]_vars

\* the handshake and the derived state
NextMetadata == lifecycle \/ metadata \/ deliverPlayerStatusChanged

SpecMetadata == Init /\ [][NextMetadata]_vars

\* the handshake and the volume
NextVolume ==
    \/ lifecycle
    \/ \E v \in VolumeChoices : setVolume(v)
    \/ deliverVolumeChanged

SpecVolume == Init /\ [][NextVolume]_vars

\* ------------------------------------------------------------------ claims
loadWait(h) == waits[<<"load", h>>]
authWait(h) == waits[<<"auth", h>>]
started(h) == hs[h].outcome # "none"

\* C1: as long as destroy() is not called, every initialize() call returns the
\* promise of one and the same handshake, and that handshake's steps (the iframe
\* made and appended, the bus made, the internal listeners registered, the wait
\* for `load`, the `authenticated` publish) have run once, whatever its outcome.
C1_AtMostOneHandshake ==
    gen.ret # {} =>
        /\ gen.runs = 1
        /\ gen.ret = {init}
        /\ attached = {init} /\ iframe = init /\ eventBus = init
        /\ bus[init].made /\ bus[init].internal = InternalEvents
        /\ loadWait(init).st # "idle" /\ loadWait(init).bus = init
        /\ hs[init].authPub <= 1
        /\ hs[init].outcome \in {"pending", "resolved", "rejected"}

C1_Witness ==
    /\ gen.again
    /\ \E h \in Buses : h = init /\ hs[h].outcome = "rejected" /\ hs[h].authPub = 0

\* C2: a handshake whose token is unsupported, or whose wait for `load` was
\* ended by `error` or by the timer, is rejected as soon as the failure handler
\* has run, and has not published `authenticated`; the step that rejects it sets
\* playerStatus to Error, calls publishError('initializationFailed') (the message
\* is posted unless the bus is destroyed) and calls emitLocalError.
failing(h) ==
    /\ started(h)
    /\ \/ ~hs[h].tokenOk
       \/ loadWait(h).st \in {"rejected", "timedout"}

initializationFailed(b) ==
    [NoMsg EXCEPT !.bus = b, !.event = "error", !.data = "initializationFailed"]

C2_FailureHandling ==
    /\ [](\A h \in Buses :
            failing(h) => /\ hs[h].outcome = "rejected" \/ <<"catch", h>> \in jobs
                          /\ hs[h].authPub = 0)
    /\ [][\A h \in Buses :
            (hs[h].outcome = "pending" /\ hs'[h].outcome = "rejected") =>
                /\ failing(h)'
                /\ playerStatus' = "Error"
                /\ hs'[h].errCalls = 1
                /\ hs'[h].localCalls = 1
                /\ ~bus[eventBus].destroyed =>
                       \E i \in 1..Len(posted') : posted'[i] = initializationFailed(eventBus)
         ]_vars

C2_Witness ==
    \E h, g \in Buses :
        /\ hs[h].outcome = "rejected" /\ hs[h].cause = "timeout"
        /\ hs[g].outcome = "rejected" /\ hs[g].cause = "error"
        /\ playerStatus = "Error"

\* C3: the promise of initialize() is resolved only when the `authChanged`
\* confirmation that follows the `authenticated` publish has been received.
C3_ResolvesAfterConfirmation ==
    \A h \in Buses : hs[h].outcome = "resolved" => authWait(h).st = "resolved"

\* C4: a listener registered through on('playerStatusChanged', l) is called for
\* an event only after the internal listener has applied that event's status:
\* every queued call of l belongs to an event the internal listener has already
\* handled.
C4_InternalBeforeExternal ==
    \A i \in 1..Len(deferred) :
        deferred[i].ev = "playerStatusChanged" => deferred[i].applied

C4_Witness ==
    /\ deferred # <<>>
    /\ deferred[1].ev = "playerStatusChanged" /\ deferred[1].applied
    /\ playerStatus = "Playing"
    /\ ~bus[deferred[1].bus].destroyed

\* C5: after on(event, l) and then off(event, l), l is not called for an
\* occurrence of `event` delivered after the off() call: a delivery queues calls
\* only of listeners that were passed to on() and not to off() since.
C5_OffRemovesListener ==
    [][Len(deferred') > Len(deferred) =>
          \A i \in (Len(deferred) + 1)..Len(deferred') :
              <<deferred'[i].ev, deferred'[i].l>> \in hostOn
      ]_vars

\* C6: a listener call that was queued before destroy() does not run after it.
C6_NoCallAfterDestroy ==
    [][(deferred # <<>> /\ deferred' = Tail(deferred)) =>
          ~bus[Head(deferred).bus].destroyed
      ]_vars

\* C7: a destroy() call on an embed that is already destroyed does not throw and
\* changes nothing, and no message is posted to the content window of an iframe
\* that destroy() has removed, whoever publishes it.
C7_DestroyIdempotentIsolating ==
    /\ [](\A i \in 1..Len(posted) :
            posted[i].bus \in attached /\ ~bus[posted[i].bus].destroyed)
    /\ [][(iframe # 0 /\ iframe \notin attached /\ destroy) =>
              /\ ~threw'
              /\ UNCHANGED <<playerStatus, volume, currentSubtitles, info, token,
                             timeoutSeconds, init, eventBus, iframe, attached, bus,
                             waits, hs, upd, jobs, deferred, gen, hostOn>>
         ]_vars

C7_Witness ==
    /\ iframe # 0 /\ iframe \notin attached
    /\ bus[eventBus].sent /\ bus[eventBus].dropped
    /\ hs[eventBus].outcome = "resolved"
    /\ posted = <<>> /\ ~threw

\* C8: the stored token is T from the updateToken(T) call on, and a call made on
\* an initialized embed is eventually settled even when neither `authChanged`
\* nor `error` is delivered (its wait times out), unless the embed is destroyed
\* first.
C8_UpdateTokenTimesOut ==
    /\ [](\A u \in Updates :
            (upd[u].st # "unused" /\ \A v \in Updates : v > u => upd[v].st = "unused")
                => token = upd[u].new)
    /\ \A u \in Updates :
            (upd[u].st = "queued" /\ init # 0 /\ hs[init].outcome = "resolved")
                ~> (upd[u].st \in {"resolved", "rejected"} \/ init = 0)

\* C9: with timeoutSeconds not configured, a handshake that is waiting for
\* `load` is eventually settled even when neither `load` nor `error` is
\* delivered (the default timeout of 30 seconds ends it), unless the embed is
\* destroyed first.
C9_DefaultTimeout ==
    \A h \in Buses :
        (timeoutSeconds = Undefined /\ hs[h].outcome = "pending")
            ~> (hs[h].outcome # "pending" \/ bus[h].destroyed)

\* C10: with timeoutSeconds configured to a positive value, the wait for `load`
\* carries a timer of timeoutSeconds * 1000 ms; a pending handshake is eventually
\* settled even when neither `load` nor `error` is delivered; once the timer has
\* ended the wait, the wait's listeners and timer are gone, the handshake has
\* failed once without an `authenticated` publish, and no later step changes the
\* handshake or its waits.
C10_ConfiguredTimeout ==
    /\ [](\A h \in Buses :
            (timeoutSeconds # Undefined /\ timeoutSeconds > 0 /\ hs[h].outcome = "pending") =>
                /\ loadWait(h).st = "pending" => loadWait(h).timer = timeoutSeconds * MsPerSecond
                /\ hs[h].timeout = timeoutSeconds * MsPerSecond)
    /\ \A h \in Buses :
            (timeoutSeconds # Undefined /\ timeoutSeconds > 0 /\ hs[h].outcome = "pending")
                ~> (hs[h].outcome # "pending")
    /\ [](\A h \in Buses :
            loadWait(h).st = "timedout" =>
                /\ ~loadWait(h).lis /\ loadWait(h).timer = 0
                /\ jobs = {} => /\ hs[h].outcome = "rejected"
                                /\ hs[h].authPub = 0 /\ hs[h].failures = 1
                                /\ authWait(h).st = "idle")
    /\ [][\A h \in Buses :
            (loadWait(h).st = "timedout" /\ hs[h].outcome = "rejected") =>
                /\ hs'[h] = hs[h]
                /\ loadWait(h)' = loadWait(h)
                /\ authWait(h)' = authWait(h)
         ]_vars

C10_Witness ==
    \E h \in Buses :
        /\ timeoutSeconds = 2
        /\ loadWait(h).st = "timedout" /\ hs[h].cause = "timeout"
        /\ hs[h].tokenOk /\ hs[h].failures = 1
        /\ ~bus[h].destroyed

\* C11: Error is terminal for an embed instance: once playerStatus is Error, no
\* later event and no later operation on that instance changes it.
C11_ErrorIsTerminal ==
    [][(playerStatus = "Error" /\ eventBus' = eventBus) => playerStatus' = "Error"]_vars

\* C12: playerStatus leaves Initializing only to Paused (content load) or to
\* Error (handshake failure).
C12_LeavesInitializing ==
    [][playerStatus = "Initializing" =>
          playerStatus' \in {"Initializing", "Paused", "Error"}]_vars

\* C13: once a `volumeChanged` event has been delivered to an initialized embed,
\* `volume` is the value the latest such event carried.
C13_VolumeFollowsEvents ==
    (/\ eventBus # 0
     /\ hs[eventBus].outcome = "resolved"
     /\ ~bus[eventBus].destroyed
     /\ bus[eventBus].heard # Undefined) => volume = bus[eventBus].heard

\* C14: a `webcastLoaded` event leaves in `info` every field of its payload but
\* `status`, with the payload's values, and `info` stays so until the next
\* loaded event.
withoutStatus(e) == {p \in e : p[1] # "status"}

C14_WebcastInfoHygiene ==
    /\ [][\A b \in Buses, e \in WebcastPayloads :
              deliver(b, "webcastLoaded", e) =>
                  /\ info' = withoutStatus(e)
                  /\ \A p \in e : p[1] # "status" => p \in info'
                  /\ \A p \in info' : p[1] # "status"
         ]_vars
    /\ [][info' # info =>
              \E b \in Buses :
                  \/ deliver(b, "videoLoaded", VideoPayload)
                  \/ \E e \in WebcastPayloads : deliver(b, "webcastLoaded", e)
         ]_vars
    /\ [](info \in {NoInfo, VideoPayload} \cup {withoutStatus(e) : e \in WebcastPayloads})

C14_Witness ==
    /\ info = withoutStatus(WebcastPayload)
    /\ <<"title", "X">> \in info /\ <<"isLive", "true">> \in info
    /\ playerStatus = "Playing"

\* C15: no call of play(), pause(), setVolume(), setSubtitles() or destroy()
\* raises an error, whether or not initialize() has been called (on() and off()
\* are alike).
C15_ControlsNeverThrow == ~threw

\* C16: the step that makes a bus registers the four internal listeners on it
\* and sends nothing, so every bus that has sent a message (`authenticated`, a
\* synthetic error, a control message) had its internal listeners registered
\* before.
C16_ListenersBeforeOutbound ==
    /\ [](\A b \in Buses : bus[b].sent => bus[b].internal = InternalEvents)
    /\ [](\A i \in 1..Len(posted) : bus[posted[i].bus].internal = InternalEvents)
    /\ [][\A b \in Buses :
              (~bus[b].made /\ bus'[b].made) =>
                  /\ bus'[b].internal = InternalEvents
                  /\ ~bus'[b].sent
                  /\ posted' = <<>>
         ]_vars

C16_Witness ==
    \E b \in Buses :
        /\ bus[b].sent /\ bus[b].internal = InternalEvents
        /\ posted # <<>> /\ posted[1].bus = b /\ posted[1].event = "playVideo"
        /\ hs[b].authPub = 1

\* C17: `authenticated` is published at most once per handshake, only when
\* `load` has been received and the token has resolved, with the resolved token
\* as payload (undefined when no token is configured), and never in a handshake
\* that fails.
authenticated(b) ==
    [NoMsg EXCEPT !.bus = b, !.event = "authenticated", !.data = initializeToken(token).val]

C17_AuthenticatedPublish ==
    /\ [](\A h \in Buses :
            /\ hs[h].authPub <= 1
            /\ hs[h].authPub = 1 => /\ loadWait(h).st = "resolved"
                                    /\ initializeToken(token).ok
                                    /\ hs[h].failures = 0
            /\ failing(h) => hs[h].authPub = 0)
    /\ [](\A i \in 1..Len(posted) :
            posted[i].event = "authenticated" =>
                /\ posted[i] = authenticated(posted[i].bus)
                /\ posted = <<posted[i]>>)
    /\ [][\A h \in Buses :
              hs'[h].authPub # hs[h].authPub =>
                  /\ hs[h].authPub = 0
                  /\ loadWait(h).st = "pending" /\ loadWait(h)'.st = "resolved"
                  /\ posted' = <<authenticated(h)>>
         ]_vars

C17_Witness ==
    \E h \in Buses :
        /\ hs[h].authPub = 1 /\ token = [type |-> ACCESS_TOKEN, value |-> "a"]
        /\ posted = <<authenticated(h)>> /\ posted[1].data = "a"

\* C18: with a configured token of an unsupported type the handshake is rejected
\* with the 'Unsupported token type' error by a microtask that initialize()
\* queues, before `load` or the timer has ended its wait, and never publishes
\* `authenticated`, also when `load` arrives later; with no token configured the
\* token resolves (to undefined) and the handshake does not fail for that reason.
unsupported(t) == t # NoToken /\ t.type # ACCESS_TOKEN

C18_UnsupportedTokenFailsFast ==
    /\ [](\A h \in Buses :
            (started(h) /\ unsupported(token)) =>
                /\ hs[h].authPub = 0
                /\ hs[h].tokenVal = "Unsupported token type"
                /\ \/ hs[h].outcome = "rejected" /\ hs[h].cause = "token"
                   \/ hs[h].outcome = "pending" /\ <<"catch", h>> \in jobs)
    /\ [][\A h \in Buses :
              (unsupported(token) /\ hs[h].outcome = "pending" /\ hs'[h].outcome # "pending") =>
                  /\ hs'[h].outcome = "rejected" /\ hs'[h].cause = "token"
                  /\ loadWait(h).st \notin {"resolved", "timedout"}
                  /\ loadWait(h)'.st \notin {"resolved", "timedout"}
         ]_vars
    /\ [](\A h \in Buses :
            (started(h) /\ token = NoToken) =>
                /\ hs[h].tokenOk /\ hs[h].tokenVal = "undefined"
                /\ hs[h].cause # "token"
                /\ <<"catch", h>> \notin jobs)

C18_Witness ==
    \E h \in Buses :
        /\ unsupported(token)
        /\ hs[h].outcome = "rejected" /\ hs[h].cause = "token"
        /\ hs[h].failures = 1 /\ hs[h].authPub = 0
        /\ ~bus[h].destroyed

updWait(u) == waits[<<"upd", u>>]

authChanged(u) ==
    [NoMsg EXCEPT !.bus = eventBus, !.event = "authChanged",
                  !.data = initializeToken(upd[u].new).val]

C20_ApplyThenConfirm ==
    /\ [](\A u \in Updates :
            /\ (upd[u].st # "unused" /\ \A v \in Updates : v > u => upd[v].st = "unused")
                   => token = upd[u].new
            /\ upd[u].st = "waiting" => updWait(u).st = "pending"
            /\ upd[u].st = "resolved" => updWait(u).st = "resolved"
            /\ upd[u].st = "rejected" => updWait(u).st \in {"idle", "rejected"}
            /\ (upd[u].st # "unused" /\ unsupported(upd[u].new)) =>
                   upd[u].st \in {"queued", "rejected"} /\ updWait(u).st = "idle")
    /\ [][\A u \in Updates :
              /\ (upd[u].st = "unused" /\ upd'[u].st # "unused") =>
                     /\ upd'[u].st = "queued"
                     /\ token' = upd'[u].new
                     /\ posted' = <<>>
              /\ (upd[u].st = "queued" /\ upd'[u].st # "queued") =>
                     IF unsupported(upd[u].new) \/ eventBus = 0
                     THEN upd'[u].st = "rejected" /\ posted' = <<>>
                     ELSE /\ upd'[u].st = "waiting"
                          /\ posted' = IF bus[eventBus].destroyed THEN <<>>
                                       ELSE <<authChanged(u)>>
              /\ (upd[u].st = "waiting" /\ upd'[u].st # "waiting") =>
                     /\ upd'[u].st \in {"resolved", "rejected"}
                     /\ \A i \in 1..Len(posted') : posted'[i].event # "authChanged"
              /\ upd[u].st \in {"resolved", "rejected"} => upd'[u] = upd[u]
         ]_vars

C20_Witness ==
    \E u \in Updates :
        /\ upd[u].st = "resolved" /\ updWait(u).st = "resolved"
        /\ token = [type |-> ACCESS_TOKEN, value |-> "b"]
        /\ eventBus # 0 /\ hs[eventBus].outcome = "resolved"

\* C21: once destroy() has returned, playerStatus, volume, currentSubtitles
\* and info do not change as long as the embed is not initialized again,
\* whatever is delivered and however a handshake or token refresh that was
\* pending at destroy() ends (stated for the steps in which no timer fires).
C21_NoUpdateAfterDestroy ==
    [][(/\ eventBus # 0 /\ bus[eventBus].destroyed /\ eventBus' = eventBus
        /\ \A w \in WaitIds : waits'[w].st = "timedout" => waits[w].st = "timedout") =>
          UNCHANGED embedState]_vars

\* C24: the settlement of a handshake that was started on an earlier bus posts
\* nothing on the current bus, leaves playerStatus alone and does not change
\* the handshake of the current bus.
C24_HandshakeKeepsToItsBus ==
    [][\A h \in Buses :
          (/\ eventBus # 0 /\ h # eventBus /\ ~bus[eventBus].destroyed
           /\ hs[h].outcome = "pending" /\ hs'[h].outcome # "pending") =>
              /\ \A i \in 1..Len(posted') : posted'[i].bus # eventBus
              /\ playerStatus' = playerStatus
              /\ hs'[eventBus] = hs[eventBus]
      ]_vars

\* C22: a wait of initialize() or updateToken() is settled once, by the first of
\* its success event (resolved), its error event (rejected) and its timer
\* (timed out); a settled wait has no listener and no timer and never changes
\* again; a wait started without a timeout has no timer.
settled(w) == waits[w].st \in {"resolved", "rejected", "timedout"}

C22_WaitSettlesOnce ==
    /\ [](\A w \in WaitIds :
            /\ waits[w].st = "pending" => waits[w].lis
            /\ settled(w) => ~waits[w].lis /\ waits[w].timer = 0
            /\ (w[1] = "upd" \/ timeoutSeconds = Undefined) => waits[w].timer = 0
            /\ (w[1] # "upd" /\ timeoutSeconds # Undefined /\ waits[w].st = "pending") =>
                   waits[w].timer = timeoutSeconds * MsPerSecond)
    /\ [][\A w \in WaitIds :
              /\ settled(w) => waits'[w] = waits[w]
              /\ (waits[w].st = "pending" /\ waits'[w].st # "pending") =>
                     /\ settled(w)'
                     /\ waits'[w].st = "resolved" => deliver(waits[w].bus, waits[w].ok, "")
                     /\ waits'[w].st = "rejected" =>
                            \/ deliver(waits[w].bus, waits[w].err, "")
                            \/ \E h \in Buses : hs'[h].localCalls > hs[h].localCalls
                     /\ waits'[w].st = "timedout" => waits[w].timer # 0
              /\ (waits[w].st = "pending" /\ deliver(waits[w].bus, waits[w].ok, "")) =>
                     waits'[w].st = "resolved"
              /\ (waits[w].st = "pending" /\ deliver(waits[w].bus, waits[w].err, "")) =>
                     waits'[w].st = "rejected"
         ]_vars

C22_Witness ==
    /\ \E w \in WaitIds : waits[w].st = "timedout" /\ w[1] = "load"
    /\ \E w \in WaitIds : waits[w].st = "resolved" /\ w[1] = "load"
    /\ \E w \in WaitIds : waits[w].st = "rejected" /\ w[1] = "upd"

\* C23: destroy() discards the memoized handshake and leaves playerStatus, info
\* and currentSubtitles as they are; the next initialize() runs a new handshake
\* on a new iframe and a new bus, again without touching them; at most one
\* iframe is attached.
C23_DestroyDiscardsMemo ==
    /\ [](/\ Cardinality(attached) <= 1
          /\ (iframe # 0 /\ iframe \notin attached) => init = 0
          /\ init # 0 => (init = iframe /\ init = eventBus /\ attached = {init}))
    /\ [][(init # 0 /\ destroy) =>
              /\ init' = 0 /\ attached' = {}
              /\ bus'[eventBus].destroyed
              /\ UNCHANGED <<playerStatus, info, currentSubtitles>>
         ]_vars
    /\ [][(init = 0 /\ iframe # 0 /\ initialize) =>
              /\ init' \in Buses /\ init' # iframe
              /\ ~bus[init'].made /\ bus'[init'].made /\ ~bus'[init'].destroyed
              /\ iframe' = init' /\ eventBus' = init' /\ attached' = {init'}
              /\ hs[init'].outcome = "none" /\ hs'[init'].outcome = "pending"
              /\ gen'.ret = {init'}
              /\ UNCHANGED <<playerStatus, info, currentSubtitles>>
         ]_vars

C23_Witness ==
    /\ init = 2 /\ attached = {2} /\ bus[1].destroyed
    /\ hs[1].outcome = "resolved" /\ hs[2].outcome = "pending"
    /\ playerStatus = "Paused" /\ info = VideoPayload
    /\ currentSubtitles # NoSubtitles
    /\ gen.ret = {2}
====
